---- MODULE Spec2Model ----
(***************************************************************************)
(* Model of the endpoint reconciler of harvester/networkfs-manager:        *)
(* Controller.OnEndpointChange (pkg/controller/endpoint/controller.go).    *)
(*                                                                         *)
(* The cluster is two stores keyed by name (NetworkFilesystem, Service),   *)
(* the endpoint value the watch delivers with each event, a wall clock     *)
(* read by metav1.Now(), and one handler invocation per worker, advanced   *)
(* one store call or one block of the decision function at a time.         *)
(***************************************************************************)
EXTENDS Integers, Sequences, FiniteSets, TLC

VARIABLES
    clock,      \* the wall clock metav1.Now() reads
    fsStore,    \* NetworkFilesystem objects by name (NilObj: not found)
    svcStore,   \* Service objects by name (NilObj: not found)
    inv         \* per worker: the running invocation of OnEndpointChange

vars == <<clock, fsStore, svcStore, inv>>

----------------------------------------------------------------------------
(* Bounds of the model *)

\* the clock stops advancing at MaxTime
MaxTime == 1

\* an endpoint carries at most MaxSubsets subsets
MaxSubsets == 2

----------------------------------------------------------------------------
(* Values *)

\* a nil pointer / an object that is not in a store
NilObj == [nil |-> TRUE]

\* names are strings, kept as sequences of characters so that
\* strings.HasPrefix is computed on them
PvcPrefix == <<"p", "v", "c", "-">>

NamePvcA == <<"p", "v", "c", "-", "a">>

NamePvcB == <<"p", "v", "c", "-", "b">>

NameShort == <<"p", "v", "c">>

NameInfix == <<"x", "p", "v", "c", "-">>

Names == {NamePvcA, NamePvcB, NameShort, NameInfix}

\* corev1.ClusterIPNone and a concrete cluster IP
ClusterIPNone == "None"

ClusterIPs == {ClusterIPNone, "10.43.0.7"}

\* networkfsv1 state and status constants
NetworkFSStateEnabled == "Enabled"

NetworkFSStateEnabling == "Enabling"

NetworkFSStateDisabled == "Disabled"

DesiredStates == {NetworkFSStateEnabled, NetworkFSStateDisabled}

EndpointStatusReady == "Ready"

EndpointStatusNotReady == "NotReady"

NetworkFSTypeNFS == "NFS"

ConditionTypeReady == "Ready"

ConditionTypeNotReady == "NotReady"

ConditionTypeEndpointChanged == "EndpointChanged"

ConditionTrue == "True"

\* the namespaces of the two Get calls (c.namespace, utils.LHNameSpace)
FSNamespace == "harvester-system"

LHNameSpace == "longhorn-system"

Workers == {1, 2}

\* the address lists a subset may carry
AddressLists ==
    {<<>>, <<[IP |-> "10.0.0.2"]>>,
     <<[IP |-> "10.0.0.9"], [IP |-> "10.0.0.2"]>>}

RECURSIVE SeqsUpTo(_, _)
SeqsUpTo(S, n) ==
    IF n = 0 THEN {<<>>}
    ELSE LET shorter == SeqsUpTo(S, n - 1)
         IN  shorter \cup {Append(s, x) : s \in shorter, x \in S}

SubsetLists == SeqsUpTo({[Addresses |-> l] : l \in AddressLists}, MaxSubsets)

\* the endpoint values the watch can deliver for a name; Deleting stands
\* for DeletionTimestamp != nil. An endpoint under deletion is delivered
\* with no subset or with a live address.
EndpointValues(name) ==
    {[Name |-> name, Deleting |-> FALSE, Subsets |-> s] : s \in SubsetLists}
    \cup
    {[Name |-> name, Deleting |-> TRUE, Subsets |-> s] :
        s \in {<<>>, <<[Addresses |-> <<[IP |-> "10.0.0.2"]>>]>>}}

\* the zero value of NetworkFilesystemStatus
ZeroStatus ==
    [Endpoint |-> "", Status |-> "", Type |-> "", State |-> "",
     NetworkFSConds |-> <<>>]

NewNetworkFS(name, desired) ==
    [Name |-> name, Namespace |-> FSNamespace,
     Spec |-> [DesiredState |-> desired], Status |-> ZeroStatus]

NewService(name, ip) ==
    [Name |-> name, Namespace |-> LHNameSpace, Spec |-> [ClusterIP |-> ip]]

NoCalls == [getFS |-> 0, getSvc |-> 0, upd |-> 0]

IdleInv ==
    [pc |-> "idle", key |-> <<>>, endpoint |-> NilObj, networkFS |-> NilObj,
     networkFSCpy |-> NilObj, service |-> NilObj, err |-> "", calls |-> NoCalls,
     applied |-> NilObj]

----------------------------------------------------------------------------
(* Pure parts of OnEndpointChange *)

\* strings.HasPrefix(s, prefix)
HasPrefix(s, prefix) ==
    /\ Len(s) >= Len(prefix)
    /\ SubSeq(s, 1, Len(prefix)) = prefix

\* mutant: the guard tests for a nil endpoint only
IsDeleted_NilOnly(endpoint) == endpoint = NilObj

\* line 53: endpoint == nil || endpoint.DeletionTimestamp != nil
IsDeleted(endpoint) ==
    \/ endpoint = NilObj
    \/ endpoint.Deleting

\* mutant: the name is searched for "pvc-" anywhere instead of at its start
NotManagedName_Contains(endpoint) ==
    ~\E i \in 1..Len(endpoint.Name) :
        HasPrefix(SubSeq(endpoint.Name, i, Len(endpoint.Name)), PvcPrefix)

\* line 59: !strings.HasPrefix(endpoint.Name, "pvc-")
NotManagedName(endpoint) == ~HasPrefix(endpoint.Name, PvcPrefix)

\* mutant: the desired-state gate only stops a resource marked Disabling
NotEnabled_OnlyDisabling(networkFS) ==
    networkFS.Spec.DesiredState = "Disabling"

\* line 71: networkFS.Spec.DesiredState != NetworkFSStateEnabled
NotEnabled(networkFS) == networkFS.Spec.DesiredState /= NetworkFSStateEnabled

\* mutant: the service gate tests for an unset cluster IP instead of "None"
NotHeadless_Unset(service) == service.Spec.ClusterIP = ""

\* line 82: service.Spec.ClusterIP != corev1.ClusterIPNone
NotHeadless(service) == service.Spec.ClusterIP /= ClusterIPNone

\* line 88: len(Subsets) == 0 || len(Subsets[0].Addresses) == 0
NoLiveAddress(endpoint) ==
    \/ Len(endpoint.Subsets) = 0
    \/ Len(endpoint.Subsets[1].Addresses) = 0

\* mutant: the served address is taken from the last subset that lists one
FirstIP_LastSubset(endpoint) ==
    LET live == {i \in 1..Len(endpoint.Subsets) :
                    Len(endpoint.Subsets[i].Addresses) > 0}
        last == CHOOSE i \in live : \A j \in live : j <= i
    IN  endpoint.Subsets[last].Addresses[1].IP

\* endpoint.Subsets[0].Addresses[0].IP
FirstIP(endpoint) == endpoint.Subsets[1].Addresses[1].IP

\* utils.UpdateNetworkFSConds: replace the record of the same type in place,
\* or append when the type is not in the history yet
UpdateNetworkFSConds(curConds, c) ==
    IF \E i \in 1..Len(curConds) : curConds[i].Type = c.Type
    THEN LET pod == CHOOSE i \in 1..Len(curConds) :
                       /\ curConds[i].Type = c.Type
                       /\ \A j \in 1..(i - 1) : curConds[j].Type /= c.Type
         IN  [curConds EXCEPT ![pod] = c]
    ELSE Append(curConds, c)

\* lines 103-106: the message of the EndpointChanged condition
ChangedMsg(newIP, prevIP) ==
    LET changedMsg == "Endpoint address is initialized with " \o newIP
    IN  IF changedMsg /= ""
        THEN "Endpoint address is changed, previous address is " \o prevIP
        ELSE changedMsg

\* mutant: the no-live-address branch forgets to clear the served address
NotReadyBranch_KeepEndpoint(cpy, now) ==
    LET conds == [Type |-> ConditionTypeNotReady,
                  Status |-> ConditionTrue,
                  LastTransitionTime |-> now,
                  Reason |-> "Endpoint is not ready",
                  Message |-> "Endpoint did not contain the corresponding address"]
    IN  [cpy EXCEPT !.Status =
            [Endpoint |-> cpy.Status.Endpoint,
             Status |-> EndpointStatusNotReady,
             Type |-> NetworkFSTypeNFS,
             State |-> NetworkFSStateEnabling,
             NetworkFSConds |->
                 UpdateNetworkFSConds(cpy.Status.NetworkFSConds, conds)]]

\* mutant: the no-live-address branch starts the history afresh
NotReadyBranch_ResetConds(cpy, now) ==
    LET conds == [Type |-> ConditionTypeNotReady,
                  Status |-> ConditionTrue,
                  LastTransitionTime |-> now,
                  Reason |-> "Endpoint is not ready",
                  Message |-> "Endpoint did not contain the corresponding address"]
    IN  [cpy EXCEPT !.Status =
            [Endpoint |-> "",
             Status |-> EndpointStatusNotReady,
             Type |-> NetworkFSTypeNFS,
             State |-> NetworkFSStateEnabling,
             NetworkFSConds |-> <<conds>>]]

\* lines 89-100: the no-live-address branch, applied to the copy
NotReadyBranch(cpy, now) ==
    LET conds == [Type |-> ConditionTypeNotReady,
                  Status |-> ConditionTrue,
                  LastTransitionTime |-> now,
                  Reason |-> "Endpoint is not ready",
                  Message |-> "Endpoint did not contain the corresponding address"]
    IN  [cpy EXCEPT !.Status =
            [Endpoint |-> "",
             Status |-> EndpointStatusNotReady,
             Type |-> NetworkFSTypeNFS,
             State |-> NetworkFSStateEnabling,
             NetworkFSConds |->
                 UpdateNetworkFSConds(cpy.Status.NetworkFSConds, conds)]]

\* mutant: the EndpointChanged condition is written on every live event
AddressChanged_Always(cpy, endpoint) == TRUE

\* line 102: the stored address differs from the endpoint's first address
AddressChanged(cpy, endpoint) == cpy.Status.Endpoint /= FirstIP(endpoint)

\* mutant: the EndpointChanged condition is appended to the history
ChangedBlock_Append(cpy, endpoint, now) ==
    IF cpy.Status.Endpoint /= FirstIP(endpoint)
    THEN LET conds == [Type |-> ConditionTypeEndpointChanged,
                       Status |-> ConditionTrue,
                       LastTransitionTime |-> now,
                       Reason |-> "Endpoint is changed",
                       Message |-> ChangedMsg(FirstIP(endpoint),
                                              cpy.Status.Endpoint)]
         IN  [cpy EXCEPT !.Status.NetworkFSConds = Append(@, conds)]
    ELSE cpy

\* lines 102-115: the EndpointChanged condition, applied to the copy
ChangedBlock(cpy, endpoint, now) ==
    IF AddressChanged(cpy, endpoint)
    THEN LET conds == [Type |-> ConditionTypeEndpointChanged,
                       Status |-> ConditionTrue,
                       LastTransitionTime |-> now,
                       Reason |-> "Endpoint is changed",
                       Message |-> ChangedMsg(FirstIP(endpoint),
                                              cpy.Status.Endpoint)]
         IN  [cpy EXCEPT !.Status.NetworkFSConds =
                 UpdateNetworkFSConds(cpy.Status.NetworkFSConds, conds)]
    ELSE cpy

\* mutant: the live-address branch serves the last address of the first
\* subset instead of the first
ReadyBlock_LastAddress(cpy, endpoint, now) ==
    LET conds == [Type |-> ConditionTypeReady,
                  Status |-> ConditionTrue,
                  LastTransitionTime |-> now,
                  Reason |-> "Endpoint is ready",
                  Message |-> "Endpoint contains the corresponding address"]
        addrs == endpoint.Subsets[1].Addresses
    IN  [cpy EXCEPT !.Status =
            [Endpoint |-> addrs[Len(addrs)].IP,
             Status |-> EndpointStatusReady,
             Type |-> NetworkFSTypeNFS,
             State |-> NetworkFSStateEnabling,
             NetworkFSConds |->
                 UpdateNetworkFSConds(cpy.Status.NetworkFSConds, conds)]]

\* mutant: a Ready filesystem is marked Enabled
ReadyBlock_StateEnabled(cpy, endpoint, now) ==
    LET conds == [Type |-> ConditionTypeReady,
                  Status |-> ConditionTrue,
                  LastTransitionTime |-> now,
                  Reason |-> "Endpoint is ready",
                  Message |-> "Endpoint contains the corresponding address"]
    IN  [cpy EXCEPT !.Status =
            [Endpoint |-> FirstIP(endpoint),
             Status |-> EndpointStatusReady,
             Type |-> NetworkFSTypeNFS,
             State |-> NetworkFSStateEnabled,
             NetworkFSConds |->
                 UpdateNetworkFSConds(cpy.Status.NetworkFSConds, conds)]]

\* lines 116-127: the Ready status and condition, applied to the copy
ReadyBlock(cpy, endpoint, now) ==
    LET conds == [Type |-> ConditionTypeReady,
                  Status |-> ConditionTrue,
                  LastTransitionTime |-> now,
                  Reason |-> "Endpoint is ready",
                  Message |-> "Endpoint contains the corresponding address"]
    IN  [cpy EXCEPT !.Status =
            [Endpoint |-> FirstIP(endpoint),
             Status |-> EndpointStatusReady,
             Type |-> NetworkFSTypeNFS,
             State |-> NetworkFSStateEnabling,
             NetworkFSConds |->
                 UpdateNetworkFSConds(cpy.Status.NetworkFSConds, conds)]]

\* line 87: networkFS.DeepCopy(), a value that shares nothing with the
\* original
DeepCopy(obj) == obj

\* mutant: the deep-equality test is inverted
NeedsUpdate_Inverted(networkFS, networkFSCpy) == networkFS = networkFSCpy

\* mutant: the status is submitted whether or not it changed
NeedsUpdate_Always(networkFS, networkFSCpy) == TRUE

\* line 130: !reflect.DeepEqual(networkFS, networkFSCpy)
NeedsUpdate(networkFS, networkFSCpy) == networkFS /= networkFSCpy

----------------------------------------------------------------------------
(* Initial state *)

\* the stores hold a NetworkFilesystem and a Service for the names in present
InitWith(present) ==
    /\ clock = 0
    /\ fsStore \in
         {f \in [Names -> {NilObj} \cup
                    {NewNetworkFS(n, d) : n \in Names, d \in DesiredStates}] :
            \A n \in Names :
               IF n \in present THEN f[n] /= NilObj /\ f[n].Name = n
                                ELSE f[n] = NilObj}
    /\ svcStore \in
         {s \in [Names -> {NilObj} \cup
                    {NewService(n, ip) : n \in Names, ip \in ClusterIPs}] :
            \A n \in Names :
               IF n \in present THEN s[n] /= NilObj /\ s[n].Name = n
                                ELSE s[n] = NilObj}
    /\ inv = [w \in Workers |-> IdleInv]

\* one NetworkFilesystem with its Service exists, under a managed name or
\* under a name the prefix filter rejects
Init == \E n \in {NamePvcA, NameInfix} : InitWith({n})

----------------------------------------------------------------------------
(* OnEndpointChange, one step per store call or block *)

\* lines 52-61: the event arrives; deleted-endpoint guard and prefix filter
Begin(w) ==
    /\ inv[w].pc = "idle"
    /\ \E key \in Names :
       \E endpoint \in EndpointValues(key) \cup {NilObj} :
          /\ \A o \in Workers \ {w} : inv[o].pc = "idle" \/ inv[o].key /= key
          /\ inv' = [inv EXCEPT ![w] =
                [IdleInv EXCEPT
                   !.key = key,
                   !.endpoint = endpoint,
                   !.pc = IF IsDeleted(endpoint) THEN "done"
                          ELSE IF NotManagedName(endpoint) THEN "done"
                          ELSE "getFS"]]
    /\ UNCHANGED <<clock, fsStore, svcStore>>

\* mutant: the name to fetch is kept in a field of the shared Controller, so
\* the Get may use the name of any invocation in flight
GetNetworkFS_SharedName(w) ==
    /\ inv[w].pc = "getFS"
    /\ \E o \in Workers :
       /\ inv[o].endpoint /= NilObj
       /\ LET name == inv[o].endpoint.Name
              called == [inv[w] EXCEPT !.calls.getFS = @ + 1]
          IN  \E fails \in BOOLEAN :
                 inv' = [inv EXCEPT ![w] =
                    IF fsStore[name] = NilObj
                    THEN [called EXCEPT !.pc = "done",
                                        !.err = "networkFS not found"]
                    ELSE IF fails
                    THEN [called EXCEPT !.pc = "done",
                                        !.err = "get networkFS failed"]
                    ELSE [called EXCEPT
                            !.networkFS = fsStore[name],
                            !.pc = IF NotEnabled(fsStore[name]) THEN "done"
                                   ELSE "getSvc"]]
    /\ UNCHANGED <<clock, fsStore, svcStore>>

\* mutant: a failed Get of the NetworkFilesystem is logged and swallowed
GetNetworkFS_SwallowError(w) ==
    /\ inv[w].pc = "getFS"
    /\ LET name == inv[w].endpoint.Name
           called == [inv[w] EXCEPT !.calls.getFS = @ + 1]
       IN  \E fails \in BOOLEAN :
              inv' = [inv EXCEPT ![w] =
                 IF fsStore[name] = NilObj \/ fails
                 THEN [called EXCEPT !.pc = "done"]
                 ELSE [called EXCEPT
                         !.networkFS = fsStore[name],
                         !.pc = IF NotEnabled(fsStore[name]) THEN "done"
                                ELSE "getSvc"]]
    /\ UNCHANGED <<clock, fsStore, svcStore>>

\* lines 64-74: NetworkFilsystems.Get and the desired-state gate
GetNetworkFS(w) ==
    /\ inv[w].pc = "getFS"
    /\ LET name == inv[w].endpoint.Name
           called == [inv[w] EXCEPT !.calls.getFS = @ + 1]
       IN  \E fails \in BOOLEAN :
              inv' = [inv EXCEPT ![w] =
                 IF fsStore[name] = NilObj
                 THEN [called EXCEPT !.pc = "done",
                                     !.err = "networkFS not found"]
                 ELSE IF fails
                 THEN [called EXCEPT !.pc = "done",
                                     !.err = "get networkFS failed"]
                 ELSE [called EXCEPT
                         !.networkFS = fsStore[name],
                         !.pc = IF NotEnabled(fsStore[name]) THEN "done"
                                ELSE "getSvc"]]
    /\ UNCHANGED <<clock, fsStore, svcStore>>

\* lines 77-87: serviceClient.Get, the headless gate and the DeepCopy
GetService(w) ==
    /\ inv[w].pc = "getSvc"
    /\ LET name == inv[w].endpoint.Name
           called == [inv[w] EXCEPT !.calls.getSvc = @ + 1]
       IN  \E fails \in BOOLEAN :
              inv' = [inv EXCEPT ![w] =
                 IF svcStore[name] = NilObj
                 THEN [called EXCEPT !.pc = "done",
                                     !.err = "service not found"]
                 ELSE IF fails
                 THEN [called EXCEPT !.pc = "done",
                                     !.err = "get service failed"]
                 ELSE IF NotHeadless(svcStore[name])
                 THEN [called EXCEPT !.service = svcStore[name],
                                     !.pc = "done"]
                 ELSE [called EXCEPT !.service = svcStore[name],
                                     !.networkFSCpy = DeepCopy(called.networkFS),
                                     !.pc = "decide"]]
    /\ UNCHANGED <<clock, fsStore, svcStore>>

\* mutant: the copy of line 87 is the fetched pointer itself, so the
\* decision function writes through to the fetched object
Decide_InPlace(w) ==
    /\ inv[w].pc = "decide"
    /\ LET new == IF NoLiveAddress(inv[w].endpoint)
                  THEN NotReadyBranch(inv[w].networkFSCpy, clock)
                  ELSE ChangedBlock(inv[w].networkFSCpy, inv[w].endpoint, clock)
       IN  inv' = [inv EXCEPT ![w] =
              [inv[w] EXCEPT
                 !.networkFSCpy = new,
                 !.networkFS = new,
                 !.pc = IF NoLiveAddress(inv[w].endpoint) THEN "update"
                        ELSE "ready"]]
    /\ UNCHANGED <<clock, fsStore, svcStore>>

\* lines 88-115: the branch on the live address; the no-live-address branch
\* whole, or the EndpointChanged block of the live-address branch
Decide(w) ==
    /\ inv[w].pc = "decide"
    /\ inv' = [inv EXCEPT ![w] =
          IF NoLiveAddress(inv[w].endpoint)
          THEN [inv[w] EXCEPT
                  !.networkFSCpy = NotReadyBranch(inv[w].networkFSCpy, clock),
                  !.pc = "update"]
          ELSE [inv[w] EXCEPT
                  !.networkFSCpy =
                      ChangedBlock(inv[w].networkFSCpy, inv[w].endpoint, clock),
                  !.pc = "ready"]]
    /\ UNCHANGED <<clock, fsStore, svcStore>>

\* lines 116-127: the rest of the live-address branch
Ready(w) ==
    /\ inv[w].pc = "ready"
    /\ inv' = [inv EXCEPT ![w] =
          [inv[w] EXCEPT
             !.networkFSCpy =
                 ReadyBlock(inv[w].networkFSCpy, inv[w].endpoint, clock),
             !.pc = "update"]]
    /\ UNCHANGED <<clock, fsStore, svcStore>>

\* mutant: a failed UpdateStatus is logged and swallowed
Update_SwallowError(w) ==
    /\ inv[w].pc = "update"
    /\ LET name == inv[w].endpoint.Name
           called == [inv[w] EXCEPT !.calls.upd = @ + 1]
       IN  IF NeedsUpdate(inv[w].networkFS, inv[w].networkFSCpy)
           THEN \E fails \in BOOLEAN :
                   IF fails \/ fsStore[name] = NilObj
                   THEN /\ inv' = [inv EXCEPT ![w] =
                              [called EXCEPT !.pc = "done"]]
                        /\ UNCHANGED fsStore
                   ELSE /\ inv' = [inv EXCEPT ![w] =
                              [called EXCEPT !.pc = "done"]]
                        /\ fsStore' = [fsStore EXCEPT ![name].Status =
                                          inv[w].networkFSCpy.Status]
           ELSE /\ inv' = [inv EXCEPT ![w].pc = "done"]
                /\ UNCHANGED fsStore
    /\ UNCHANGED <<clock, svcStore>>

\* mutant: the copy is submitted with Update, which replaces the whole
\* stored object, instead of UpdateStatus
Update_WholeObject(w) ==
    /\ inv[w].pc = "update"
    /\ LET name == inv[w].endpoint.Name
           called == [inv[w] EXCEPT !.calls.upd = @ + 1]
       IN  IF NeedsUpdate(inv[w].networkFS, inv[w].networkFSCpy)
           THEN \E fails \in BOOLEAN :
                   IF fails \/ fsStore[name] = NilObj
                   THEN /\ inv' = [inv EXCEPT ![w] =
                              [called EXCEPT !.pc = "done",
                                             !.err = "update status failed"]]
                        /\ UNCHANGED fsStore
                   ELSE /\ inv' = [inv EXCEPT ![w] =
                              [called EXCEPT !.pc = "done"]]
                        /\ fsStore' = [fsStore EXCEPT ![name] =
                                          inv[w].networkFSCpy]
           ELSE /\ inv' = [inv EXCEPT ![w].pc = "done"]
                /\ UNCHANGED fsStore
    /\ UNCHANGED <<clock, svcStore>>

\* lines 130-137: the deep-equality test and NetworkFilsystems.UpdateStatus,
\* which replaces the status subresource of the stored object
Update(w) ==
    /\ inv[w].pc = "update"
    /\ LET name == inv[w].endpoint.Name
           called == [inv[w] EXCEPT !.calls.upd = @ + 1]
       IN  IF NeedsUpdate(inv[w].networkFS, inv[w].networkFSCpy)
           THEN \E fails \in BOOLEAN :
                   IF fails \/ fsStore[name] = NilObj
                   THEN /\ inv' = [inv EXCEPT ![w] =
                              [called EXCEPT !.pc = "done",
                                             !.err = "update status failed"]]
                        /\ UNCHANGED fsStore
                   ELSE /\ inv' = [inv EXCEPT ![w] =
                              [called EXCEPT !.pc = "done"]]
                        /\ fsStore' = [fsStore EXCEPT ![name].Status =
                                          inv[w].networkFSCpy.Status]
           ELSE /\ inv' = [inv EXCEPT ![w].pc = "done"]
                /\ UNCHANGED fsStore
    /\ UNCHANGED <<clock, svcStore>>

\* the handler has returned (nil, err); the worker takes the next event
Return(w) ==
    /\ inv[w].pc = "done"
    /\ inv' = [inv EXCEPT ![w] = IdleInv]
    /\ UNCHANGED <<clock, fsStore, svcStore>>

\* the framework delivers the same endpoint value again (a resync, or the
\* requeue after an error). applied remembers the stored object when the
\* invocation before went through the persistence step without error.
Redeliver(w) ==
    /\ inv[w].pc = "done"
    /\ ~IsDeleted(inv[w].endpoint)
    /\ ~NotManagedName(inv[w].endpoint)
    /\ inv' = [inv EXCEPT ![w] =
          [IdleInv EXCEPT
             !.key = inv[w].key,
             !.endpoint = inv[w].endpoint,
             !.pc = "getFS",
             !.applied = IF inv[w].networkFSCpy /= NilObj /\ inv[w].err = ""
                         THEN fsStore[inv[w].endpoint.Name]
                         ELSE NilObj]]
    /\ UNCHANGED <<clock, fsStore, svcStore>>

Handler(w) ==
    \/ Begin(w)
    \/ Redeliver(w)
    \/ GetNetworkFS(w)
    \/ GetService(w)
    \/ Decide(w)
    \/ Ready(w)
    \/ Update(w)
    \/ Return(w)

----------------------------------------------------------------------------
(* The environment *)

\* time passes
Tick ==
    /\ clock < MaxTime
    /\ clock' = clock + 1
    /\ UNCHANGED <<fsStore, svcStore, inv>>

\* an external actor sets Spec.DesiredState of a NetworkFilesystem
SetDesiredState ==
    /\ \E n \in Names, d \in DesiredStates :
          /\ fsStore[n] /= NilObj
          /\ fsStore[n].Spec.DesiredState /= d
          /\ fsStore' = [fsStore EXCEPT ![n].Spec.DesiredState = d]
    /\ UNCHANGED <<clock, svcStore, inv>>

\* an external actor sets Spec.ClusterIP of a Service
SetClusterIP ==
    /\ \E n \in Names, ip \in ClusterIPs :
          /\ svcStore[n] /= NilObj
          /\ svcStore[n].Spec.ClusterIP /= ip
          /\ svcStore' = [svcStore EXCEPT ![n].Spec.ClusterIP = ip]
    /\ UNCHANGED <<clock, fsStore, inv>>

Next ==
    \/ Handler(1)
    \/ Tick
    \/ SetDesiredState
    \/ SetClusterIP

Spec == Init /\ [][Next]_vars

----------------------------------------------------------------------------
(* Two events on two names, delivered concurrently *)

\* the name whose event each worker handles
ConcName == [w \in Workers |-> IF w = 1 THEN NamePvcA ELSE NamePvcB]

\* the endpoint shapes delivered here: no subset, or one subset with no,
\* one or two addresses
ConcSubsetLists == {<<>>} \cup {<<[Addresses |-> l]>> : l \in AddressLists}

\* the status an invocation at time 0 leaves for a first address 10.0.0.2
ReadyStatus ==
    LET endpoint == [Name |-> NamePvcA, Deleting |-> FALSE,
                     Subsets |-> <<[Addresses |-> <<[IP |-> "10.0.0.2"]>>]>>]
        fresh == NewNetworkFS(NamePvcA, NetworkFSStateEnabled)
    IN  ReadyBlock(ChangedBlock(fresh, endpoint, 0), endpoint, 0).Status

\* both names have an enabled NetworkFilesystem, fresh or Ready, and a
\* headless Service
InitConc ==
    /\ clock = 0
    /\ \E st \in [{NamePvcA, NamePvcB} -> {ZeroStatus, ReadyStatus}] :
          fsStore = [n \in Names |->
             IF n \in {NamePvcA, NamePvcB}
             THEN [NewNetworkFS(n, NetworkFSStateEnabled) EXCEPT !.Status = st[n]]
             ELSE NilObj]
    /\ svcStore = [n \in Names |->
          IF n \in {NamePvcA, NamePvcB} THEN NewService(n, ClusterIPNone)
          ELSE NilObj]
    /\ inv = [w \in Workers |-> IdleInv]

\* the event of worker w's name arrives
Deliver(w) ==
    /\ Begin(w)
    /\ inv'[w].key = ConcName[w]
    /\ inv'[w].pc = "getFS"
    /\ inv'[w].endpoint.Subsets \in ConcSubsetLists

\* each worker handles one event; the steps of the two interleave freely
NextConc ==
    \/ \E w \in Workers :
          \/ Deliver(w)
          \/ GetNetworkFS(w)
          \/ GetService(w)
          \/ Decide(w)
          \/ Ready(w)
          \/ Update(w)
    \/ Tick

SpecConc == InitConc /\ [][NextConc]_vars

----------------------------------------------------------------------------
(* One endpoint that no longer changes, redelivered for ever *)

\* the event of pvc-a arrives at worker 1 and passes the first two guards
Arrive ==
    /\ Begin(1)
    /\ inv'[1].key = NamePvcA
    /\ inv'[1].pc = "getFS"

\* the endpoint, the DesiredState and the Service stay as they are; the
\* framework redelivers the event after every return
NextLive ==
    \/ Arrive
    \/ GetNetworkFS(1)
    \/ GetService(1)
    \/ Decide(1)
    \/ Ready(1)
    \/ Update(1)
    \/ Redeliver(1)
    \/ Tick

\* the handler runs on, the framework keeps redelivering, and of the calls
\* that are tried again and again each eventually succeeds
FairLive ==
    /\ WF_vars(Arrive)
    /\ WF_vars(Decide(1))
    /\ WF_vars(Ready(1))
    /\ WF_vars(Redeliver(1))
    /\ SF_vars(GetNetworkFS(1) /\ inv'[1].err = "")
    /\ SF_vars(GetService(1) /\ inv'[1].err = "")
    /\ SF_vars(Update(1) /\ inv'[1].err = "")

SpecLive == InitConc /\ [][NextLive]_vars /\ FairLive

----------------------------------------------------------------------------
(* Vocabulary of the properties *)

\* the name starts with the four characters p v c -
StartsWithPvcDash(name) ==
    /\ Len(name) >= 4
    /\ name[1] = "p" /\ name[2] = "v" /\ name[3] = "c" /\ name[4] = "-"

\* the invocation passed all six guards: the copy of line 87 exists
PassedGuards(w) == inv[w].networkFSCpy /= NilObj

\* the decision function has run: the prospective object is complete
Decided(w) == PassedGuards(w) /\ inv[w].pc \in {"update", "done"}

\* the invocation has returned after passing all six guards
Finished(w) == PassedGuards(w) /\ inv[w].pc = "done"

\* how many records of a type a condition history holds
CountType(conds, type) ==
    Cardinality({i \in 1..Len(conds) : conds[i].Type = type})

\* the records of a type in a condition history
RecordsOf(conds, type) ==
    {conds[i] : i \in {j \in 1..Len(conds) : conds[j].Type = type}}

\* every address of every subset of an endpoint
AllIPs(endpoint) ==
    UNION {{endpoint.Subsets[i].Addresses[j].IP :
               j \in 1..Len(endpoint.Subsets[i].Addresses)} :
           i \in 1..Len(endpoint.Subsets)}

\* the first subset exists and lists an address
FirstSubsetLive(endpoint) ==
    /\ Len(endpoint.Subsets) >= 1
    /\ Len(endpoint.Subsets[1].Addresses) >= 1

ConditionTypes ==
    {ConditionTypeReady, ConditionTypeNotReady, ConditionTypeEndpointChanged}

GetFSErrors == {"networkFS not found", "get networkFS failed"}

GetServiceErrors == {"service not found", "get service failed"}

\* the stored object the invocation of worker w is about
Stored(w) == fsStore[inv[w].endpoint.Name]

----------------------------------------------------------------------------
(* C1: idempotence *)

\* C1: once the status write of a first invocation has been applied, a second
\* invocation on the same endpoint, with the NetworkFilesystem fetched
\* unchanged and all guards passed, issues no UpdateStatus call, whatever the
\* time at which it runs.
C1_Idempotent ==
    \A w \in Workers :
       (/\ Finished(w)
        /\ inv[w].applied /= NilObj
        /\ inv[w].networkFS = inv[w].applied)
       => inv[w].calls.upd = 0

----------------------------------------------------------------------------
(* C2: readiness derivation *)

\* C2 as stated: whenever some subset of the endpoint lists some address, the
\* resulting status is Ready, serves one of the endpoint's addresses, has
\* Type NFS and holds the Ready condition exactly once.
C2_AnySubsetReady ==
    \A w \in Workers :
       (Decided(w) /\ AllIPs(inv[w].endpoint) /= {})
       => LET st == inv[w].networkFSCpy.Status
          IN  /\ st.Status = EndpointStatusReady
              /\ st.Endpoint \in AllIPs(inv[w].endpoint)
              /\ st.Type = NetworkFSTypeNFS
              /\ CountType(st.NetworkFSConds, ConditionTypeReady) = 1

\* C2 amended: whenever the FIRST subset of the endpoint lists an address, the
\* prospective status is Ready, serves the first address of the first subset,
\* has Type NFS and holds the Ready condition exactly once; and once the
\* invocation has returned without error that status is the stored one.
C2_FirstSubsetReady ==
    \A w \in Workers :
       (Decided(w) /\ FirstSubsetLive(inv[w].endpoint))
       => LET st == inv[w].networkFSCpy.Status
          IN  /\ st.Status = EndpointStatusReady
              /\ st.Endpoint = inv[w].endpoint.Subsets[1].Addresses[1].IP
              /\ st.Type = NetworkFSTypeNFS
              /\ CountType(st.NetworkFSConds, ConditionTypeReady) = 1
              /\ (inv[w].pc = "done" /\ inv[w].err = "")
                    => Stored(w).Status = st

\* a write of a Ready status derived from a first subset with two addresses
\* has been applied
C2_Witness ==
    \E w \in Workers :
       /\ Finished(w)
       /\ inv[w].err = ""
       /\ inv[w].calls.upd = 1
       /\ FirstSubsetLive(inv[w].endpoint)
       /\ Len(inv[w].endpoint.Subsets[1].Addresses) = 2
       /\ Stored(w).Status.Status = EndpointStatusReady

----------------------------------------------------------------------------
(* C3: not-ready derivation *)

\* C3 as stated: for an endpoint with zero subsets, whatever the prior status,
\* a status write is submitted, with Status NotReady, an empty Endpoint and
\* the NotReady condition exactly once.
C3_AlwaysWritesNotReady ==
    \A w \in Workers :
       (Finished(w) /\ Len(inv[w].endpoint.Subsets) = 0)
       => LET st == inv[w].networkFSCpy.Status
          IN  /\ inv[w].calls.upd = 1
              /\ st.Status = EndpointStatusNotReady
              /\ st.Endpoint = ""
              /\ CountType(st.NetworkFSConds, ConditionTypeNotReady) = 1

\* C3 amended: for an endpoint with zero subsets the prospective status has
\* Status NotReady, an empty Endpoint and the NotReady condition exactly once;
\* the write carrying it is submitted unless the fetched object already
\* equals it, and always when the prior status is Ready or serves an address.
C3_NotReady ==
    \A w \in Workers :
       (Decided(w) /\ Len(inv[w].endpoint.Subsets) = 0)
       => LET st == inv[w].networkFSCpy.Status
              prior == inv[w].networkFS.Status
          IN  /\ st.Status = EndpointStatusNotReady
              /\ st.Endpoint = ""
              /\ CountType(st.NetworkFSConds, ConditionTypeNotReady) = 1
              /\ inv[w].pc = "done" =>
                    /\ (inv[w].calls.upd = 1) <=>
                          (inv[w].networkFS /= inv[w].networkFSCpy)
                    /\ (prior.Status = EndpointStatusReady \/ prior.Endpoint /= "")
                          => inv[w].calls.upd = 1

\* an endpoint with zero subsets took a Ready status with an address to
\* NotReady, and the write was applied
C3_Witness ==
    \E w \in Workers :
       /\ Finished(w)
       /\ Len(inv[w].endpoint.Subsets) = 0
       /\ inv[w].networkFS.Status.Status = EndpointStatusReady
       /\ inv[w].networkFS.Status.Endpoint /= ""
       /\ inv[w].calls.upd = 1
       /\ inv[w].err = ""
       /\ Stored(w).Status.Status = EndpointStatusNotReady
       /\ Stored(w).Status.Endpoint = ""

----------------------------------------------------------------------------
(* C4: a condition is replaced, not appended *)

\* C4: every condition history, stored or prospective, holds at most one
\* record per condition type; and after an applied address change the one
\* EndpointChanged record is the one of that change: it names the address
\* that was stored before it and is no older than the record it replaced.
C4_OnePerType ==
    /\ \A n \in Names : \A t \in ConditionTypes :
          fsStore[n] /= NilObj
             => CountType(fsStore[n].Status.NetworkFSConds, t) <= 1
    /\ \A w \in Workers : \A t \in ConditionTypes :
          PassedGuards(w)
             => CountType(inv[w].networkFSCpy.Status.NetworkFSConds, t) <= 1
    /\ \A w \in Workers :
          (/\ Finished(w)
           /\ inv[w].err = ""
           /\ FirstSubsetLive(inv[w].endpoint)
           /\ inv[w].networkFS.Status.Endpoint /=
                 inv[w].endpoint.Subsets[1].Addresses[1].IP)
          => LET now == RecordsOf(Stored(w).Status.NetworkFSConds,
                                  ConditionTypeEndpointChanged)
                 old == RecordsOf(inv[w].networkFS.Status.NetworkFSConds,
                                  ConditionTypeEndpointChanged)
             IN  /\ Cardinality(now) = 1
                 /\ \A c \in now :
                       /\ c.Message =
                             "Endpoint address is changed, previous address is "
                                \o inv[w].networkFS.Status.Endpoint
                       /\ \A o \in old :
                             c.LastTransitionTime >= o.LastTransitionTime

\* a second address change in a row has been applied: the fetched status
\* already held an EndpointChanged record and served another address
C4_Witness ==
    \E w \in Workers :
       /\ Finished(w)
       /\ inv[w].err = ""
       /\ inv[w].calls.upd = 1
       /\ FirstSubsetLive(inv[w].endpoint)
       /\ inv[w].networkFS.Status.Endpoint /= ""
       /\ inv[w].networkFS.Status.Endpoint /=
             inv[w].endpoint.Subsets[1].Addresses[1].IP
       /\ CountType(inv[w].networkFS.Status.NetworkFSConds,
                    ConditionTypeEndpointChanged) = 1
       /\ CountType(Stored(w).Status.NetworkFSConds,
                    ConditionTypeEndpointChanged) = 1
       /\ Len(Stored(w).Status.NetworkFSConds) = 3

----------------------------------------------------------------------------
(* C5: desired-state gating *)

\* C5: an invocation that fetched a NetworkFilesystem whose DesiredState is
\* not Enabled has returned with no error, without reading the Service,
\* without building a prospective object and without any UpdateStatus call.
C5_DesiredStateGate ==
    \A w \in Workers :
       (/\ inv[w].networkFS /= NilObj
        /\ inv[w].networkFS.Spec.DesiredState /= NetworkFSStateEnabled)
       => /\ inv[w].pc = "done"
          /\ inv[w].err = ""
          /\ inv[w].calls.getSvc = 0
          /\ inv[w].calls.upd = 0
          /\ inv[w].networkFSCpy = NilObj

\* a disabled NetworkFilesystem was fetched for an endpoint with a live
\* address whose Service is headless
C5_Witness ==
    \E w \in Workers :
       /\ inv[w].pc = "done"
       /\ inv[w].networkFS /= NilObj
       /\ inv[w].networkFS.Spec.DesiredState = NetworkFSStateDisabled
       /\ FirstSubsetLive(inv[w].endpoint)
       /\ svcStore[inv[w].endpoint.Name].Spec.ClusterIP = ClusterIPNone

----------------------------------------------------------------------------
(* C6: service gating *)

\* C6: an invocation that fetched a Service whose cluster IP is not "None"
\* has returned with no error, without building a prospective object and
\* without any UpdateStatus call.
C6_ServiceGate ==
    \A w \in Workers :
       (/\ inv[w].service /= NilObj
        /\ inv[w].service.Spec.ClusterIP /= "None")
       => /\ inv[w].pc = "done"
          /\ inv[w].err = ""
          /\ inv[w].calls.upd = 0
          /\ inv[w].networkFSCpy = NilObj

\* a Service with a concrete cluster IP was fetched for an enabled
\* NetworkFilesystem that is Ready, on an endpoint that lost its address
C6_Witness ==
    \E w \in Workers :
       /\ inv[w].pc = "done"
       /\ inv[w].service /= NilObj
       /\ inv[w].service.Spec.ClusterIP = "10.43.0.7"
       /\ inv[w].networkFS.Status.Status = EndpointStatusReady
       /\ Len(inv[w].endpoint.Subsets) = 0

----------------------------------------------------------------------------
(* C7: prefix filter *)

\* C7: an invocation for an endpoint whose name does not start with "pvc-"
\* has returned with no error and has made no Get of the NetworkFilesystem,
\* no Get of the Service and no UpdateStatus call.
C7_PrefixFilter ==
    \A w \in Workers :
       (/\ inv[w].pc /= "idle"
        /\ inv[w].endpoint /= NilObj
        /\ ~StartsWithPvcDash(inv[w].endpoint.Name))
       => /\ inv[w].pc = "done"
          /\ inv[w].err = ""
          /\ inv[w].calls = NoCalls
          /\ inv[w].networkFS = NilObj
          /\ inv[w].service = NilObj
          /\ inv[w].networkFSCpy = NilObj

\* an endpoint named "xpvc-" with a live address was delivered while an
\* enabled NetworkFilesystem and a headless Service of that name exist
C7_Witness ==
    \E w \in Workers :
       /\ inv[w].pc = "done"
       /\ inv[w].endpoint /= NilObj
       /\ inv[w].endpoint.Name = NameInfix
       /\ ~inv[w].endpoint.Deleting
       /\ FirstSubsetLive(inv[w].endpoint)
       /\ fsStore[NameInfix] /= NilObj
       /\ fsStore[NameInfix].Spec.DesiredState = NetworkFSStateEnabled
       /\ svcStore[NameInfix].Spec.ClusterIP = ClusterIPNone

----------------------------------------------------------------------------
(* C8: write exactly on change *)

\* C8: an invocation that passed all guards calls UpdateStatus at most once,
\* not before the decision is complete, and, by the time it returns, exactly
\* when the prospective object differs from the fetched one.
C8_WriteIffChanged ==
    \A w \in Workers :
       PassedGuards(w)
       => /\ inv[w].calls.upd <= 1
          /\ inv[w].pc /= "done" => inv[w].calls.upd = 0
          /\ inv[w].pc = "done" =>
                ((inv[w].calls.upd = 1) <=>
                    (inv[w].networkFS /= inv[w].networkFSCpy))

\* an invocation passed all guards, recomputed a status equal to the fetched
\* one, conditions included, and returned without a write
C8_Witness ==
    \E w \in Workers :
       /\ Finished(w)
       /\ inv[w].calls.upd = 0
       /\ inv[w].networkFS = inv[w].networkFSCpy
       /\ Len(inv[w].networkFSCpy.Status.NetworkFSConds) >= 2

----------------------------------------------------------------------------
(* C9: lookup failure *)

\* C9: when the Get of the NetworkFilesystem gave no object (a failure, or
\* not found) the invocation has returned that error without reading the
\* Service and without any UpdateStatus call; when the NetworkFilesystem was
\* fetched Enabled and the Get of the Service gave no object it has returned
\* that error without any UpdateStatus call; a missing object is never
\* fetched.
C9_LookupFailure ==
    \A w \in Workers :
       /\ (inv[w].calls.getFS = 1 /\ inv[w].networkFS = NilObj)
          => /\ inv[w].pc = "done"
             /\ inv[w].err \in GetFSErrors
             /\ inv[w].calls.getSvc = 0
             /\ inv[w].calls.upd = 0
             /\ inv[w].networkFSCpy = NilObj
       /\ (inv[w].calls.getSvc = 1 /\ inv[w].service = NilObj)
          => /\ inv[w].pc = "done"
             /\ inv[w].err \in GetServiceErrors
             /\ inv[w].networkFS.Spec.DesiredState = NetworkFSStateEnabled
             /\ inv[w].calls.upd = 0
             /\ inv[w].networkFSCpy = NilObj
       /\ (inv[w].calls.getFS = 1 /\ Stored(w) = NilObj)
          => inv[w].err = "networkFS not found"

\* the Get of the Service failed for an enabled NetworkFilesystem whose
\* stored status is Ready, on an endpoint that lost its address
C9_Witness ==
    \E w \in Workers :
       /\ inv[w].pc = "done"
       /\ inv[w].err = "get service failed"
       /\ Len(inv[w].endpoint.Subsets) = 0
       /\ Stored(w).Status.Status = EndpointStatusReady
       /\ Stored(w).Status = inv[w].networkFS.Status

----------------------------------------------------------------------------
(* C10: write failure *)

\* C10: an invocation that passed all guards returns either no error, and
\* then the stored status is the prospective one, or the error of the one
\* UpdateStatus call it made, and then the stored status is still the
\* fetched one.
C10_WriteFailure ==
    \A w \in Workers :
       Finished(w)
       => \/ /\ inv[w].err = ""
             /\ Stored(w).Status = inv[w].networkFSCpy.Status
          \/ /\ inv[w].err = "update status failed"
             /\ inv[w].calls.upd = 1
             /\ inv[w].networkFS /= inv[w].networkFSCpy
             /\ Stored(w).Status = inv[w].networkFS.Status
             /\ Stored(w).Status /= inv[w].networkFSCpy.Status

\* UpdateStatus failed on the write that would have taken a Ready status to
\* NotReady: the stored status is still Ready
C10_Witness ==
    \E w \in Workers :
       /\ Finished(w)
       /\ inv[w].err = "update status failed"
       /\ Stored(w).Status.Status = EndpointStatusReady
       /\ inv[w].networkFSCpy.Status.Status = EndpointStatusNotReady

----------------------------------------------------------------------------
(* C11: deleted-endpoint guard *)

\* C11: an invocation whose endpoint is nil or carries a deletion timestamp
\* has returned with no error and has made no Get of the NetworkFilesystem,
\* no Get of the Service and no UpdateStatus call, whatever the name.
C11_DeletedGuard ==
    \A w \in Workers :
       (/\ inv[w].pc /= "idle"
        /\ \/ inv[w].endpoint = NilObj
           \/ inv[w].endpoint.Deleting)
       => /\ inv[w].pc = "done"
          /\ inv[w].err = ""
          /\ inv[w].calls = NoCalls
          /\ inv[w].networkFS = NilObj
          /\ inv[w].service = NilObj
          /\ inv[w].networkFSCpy = NilObj

\* an endpoint "pvc-a" under deletion and without subsets was delivered
\* while the stored status is Ready with an address; it stays so
C11_Witness ==
    \E w \in Workers :
       /\ inv[w].pc = "done"
       /\ inv[w].key = NamePvcA
       /\ inv[w].endpoint /= NilObj
       /\ inv[w].endpoint.Deleting
       /\ Len(inv[w].endpoint.Subsets) = 0
       /\ fsStore[NamePvcA] /= NilObj
       /\ fsStore[NamePvcA].Spec.DesiredState = NetworkFSStateEnabled
       /\ svcStore[NamePvcA].Spec.ClusterIP = ClusterIPNone
       /\ fsStore[NamePvcA].Status.Status = EndpointStatusReady
       /\ fsStore[NamePvcA].Status.Endpoint /= ""

----------------------------------------------------------------------------
(* C12: status-only mutation *)

\* an object with its status blanked: what is left is name, namespace, Spec
WithoutStatus(obj) == [obj EXCEPT !.Status = ZeroStatus]

\* the prospective object differs from the fetched one in its status only
CopyKeepsIdentity ==
    \A w \in Workers :
       PassedGuards(w)
       => WithoutStatus(inv[w].networkFSCpy) = WithoutStatus(inv[w].networkFS)

\* a step of the handler (the steps that change inv) creates and deletes no
\* NetworkFilesystem and changes nothing of a stored one but its status
HandlerStepKeepsIdentity ==
    (inv' /= inv)
    => \A n \in Names :
          IF fsStore[n] = NilObj
          THEN fsStore'[n] = NilObj
          ELSE /\ fsStore'[n] /= NilObj
               /\ WithoutStatus(fsStore'[n]) = WithoutStatus(fsStore[n])

\* C12: across every sequence of invocations the reconciler changes only the
\* Status of a NetworkFilesystem: the object it submits has the name, the
\* namespace and the Spec of the fetched one, and no step of it creates or
\* deletes a stored object or changes its name, namespace or Spec.
C12_StatusOnly == []CopyKeepsIdentity /\ [][HandlerStepKeepsIdentity]_vars

\* a status write was applied to an object whose DesiredState an external
\* actor had changed after the fetch: the stored Spec is not the fetched one
C12_Witness ==
    \E w \in Workers :
       /\ Finished(w)
       /\ inv[w].err = ""
       /\ inv[w].calls.upd = 1
       /\ Stored(w).Status = inv[w].networkFSCpy.Status
       /\ Stored(w).Spec /= inv[w].networkFSCpy.Spec

----------------------------------------------------------------------------
(* C13: private copy *)

\* while an invocation holds a fetched object and has not returned, the
\* stored status is the fetched one
ReaderSeesFetched ==
    \A w \in Workers :
       (inv[w].networkFS /= NilObj /\ inv[w].pc /= "done")
       => Stored(w).Status = inv[w].networkFS.Status

\* no step within an invocation changes the fetched object
FetchedUntouched ==
    \A w \in Workers :
       (inv[w].networkFS /= NilObj /\ inv'[w].pc \notin {"idle", "getFS"})
       => inv'[w].networkFS = inv[w].networkFS

\* a stored status changes only in the step in which UpdateStatus succeeds,
\* and then to the status of the copy, whole
StatusChangesByUpdateOnly ==
    \A n \in Names :
       (fsStore[n] /= NilObj /\ fsStore'[n].Status /= fsStore[n].Status)
       => \E w \in Workers :
             /\ inv[w].pc = "update"
             /\ inv[w].endpoint.Name = n
             /\ inv'[w].pc = "done"
             /\ inv'[w].err = ""
             /\ fsStore'[n].Status = inv[w].networkFSCpy.Status

\* C13: during an invocation the fetched object is never modified, at every
\* intermediate step of the decision function the stored status is still the
\* fetched one, and the stored status changes only in one step, through a
\* successful UpdateStatus.
C13_PrivateCopy ==
    /\ []ReaderSeesFetched
    /\ [][FetchedUntouched /\ StatusChangesByUpdateOnly]_vars

\* the decision is complete and replaced a Ready condition already in the
\* history: the copy differs from the fetched object, the store does not
C13_Witness ==
    \E w \in Workers :
       /\ inv[w].pc = "update"
       /\ CountType(inv[w].networkFS.Status.NetworkFSConds,
                    ConditionTypeReady) = 1
       /\ inv[w].networkFSCpy.Status /= inv[w].networkFS.Status
       /\ Stored(w).Status = inv[w].networkFS.Status

----------------------------------------------------------------------------
(* C14: independence across names *)

\* what an invocation running alone computes from a fetched object and an
\* endpoint, for the times it may read up to now
AloneOutcomes(networkFS, endpoint, now) ==
    IF Len(endpoint.Subsets) = 0 \/ Len(endpoint.Subsets[1].Addresses) = 0
    THEN {NotReadyBranch(networkFS, t) : t \in 0..now}
    ELSE {ReadyBlock(ChangedBlock(networkFS, endpoint, t1), endpoint, t2) :
             t1 \in 0..now, t2 \in 0..now}

\* C14: an invocation for name N fetches only the NetworkFilesystem and the
\* Service named N; whatever the other invocation does meanwhile, the stored
\* status of N is the fetched one until the invocation returns, what it
\* computes is what it computes running alone, and when it has returned the
\* stored status of N is that result (or still the fetched status, when
\* nothing was written): the outcome of running the two one after the other.
C14_Independent ==
    \A w \in Workers :
       /\ inv[w].networkFS /= NilObj
          => /\ inv[w].networkFS.Name = inv[w].endpoint.Name
             /\ inv[w].pc /= "done"
                   => Stored(w).Status = inv[w].networkFS.Status
             /\ inv[w].pc = "done"
                   => Stored(w).Status =
                         IF PassedGuards(w) /\ inv[w].err = ""
                         THEN inv[w].networkFSCpy.Status
                         ELSE inv[w].networkFS.Status
       /\ inv[w].service /= NilObj
          => inv[w].service.Name = inv[w].endpoint.Name
       /\ Decided(w)
          => inv[w].networkFSCpy \in
                AloneOutcomes(inv[w].networkFS, inv[w].endpoint, clock)
       /\ \A n \in Names \ {inv[o].key : o \in Workers} :
             fsStore[n] /= NilObj
                => fsStore[n].Status \in {ZeroStatus, ReadyStatus}

\* the two invocations overlap: the one for pvc-a has written NotReady
\* while the one for pvc-b, which fetched a Ready status, is about to write
\* its change of address
C14_Witness ==
    /\ Finished(1)
    /\ inv[1].err = ""
    /\ inv[1].calls.upd = 1
    /\ fsStore[NamePvcA].Status.Status = EndpointStatusNotReady
    /\ inv[2].pc = "update"
    /\ inv[2].networkFS.Status = ReadyStatus
    /\ inv[2].networkFSCpy.Status.Endpoint = "10.0.0.9"
    /\ fsStore[NamePvcB].Status = ReadyStatus

----------------------------------------------------------------------------
(* C15: the message of the EndpointChanged condition *)

\* C15: when the live address differs from the stored one, the message of
\* the EndpointChanged condition says the address was initialized with the
\* new address if no address was stored, and that it changed from the
\* previous address otherwise.
C15_InitializedMessage ==
    \A w \in Workers :
       (/\ Decided(w)
        /\ FirstSubsetLive(inv[w].endpoint)
        /\ inv[w].networkFS.Status.Endpoint /=
              inv[w].endpoint.Subsets[1].Addresses[1].IP)
       => LET prev == inv[w].networkFS.Status.Endpoint
              new == inv[w].endpoint.Subsets[1].Addresses[1].IP
          IN  \A c \in RecordsOf(inv[w].networkFSCpy.Status.NetworkFSConds,
                                 ConditionTypeEndpointChanged) :
                 c.Message =
                    IF prev = ""
                    THEN "Endpoint address is initialized with " \o new
                    ELSE "Endpoint address is changed, previous address is "
                            \o prev

----------------------------------------------------------------------------
(* C16: when the EndpointChanged condition is written *)

\* C16: in the live-address branch, when the endpoint's first address
\* differs from the fetched Status.Endpoint the prospective history holds one
\* EndpointChanged record, no older than the one it replaces, and a Ready
\* record no older than it, and the one write of the invocation carries both;
\* when the address is the same, the EndpointChanged records of the
\* prospective history are those of the fetched one, untouched.
C16_ChangedTrigger ==
    \A w \in Workers :
       (Decided(w) /\ FirstSubsetLive(inv[w].endpoint))
       => LET differs == inv[w].networkFS.Status.Endpoint /=
                            inv[w].endpoint.Subsets[1].Addresses[1].IP
              conds == inv[w].networkFSCpy.Status.NetworkFSConds
              old == RecordsOf(inv[w].networkFS.Status.NetworkFSConds,
                               ConditionTypeEndpointChanged)
              new == RecordsOf(conds, ConditionTypeEndpointChanged)
              ready == RecordsOf(conds, ConditionTypeReady)
          IN  IF differs
              THEN /\ Cardinality(new) = 1
                   /\ Cardinality(ready) = 1
                   /\ \A c \in new :
                         /\ c.Status = ConditionTrue
                         /\ c.LastTransitionTime <= clock
                         /\ \A o \in old :
                               c.LastTransitionTime >= o.LastTransitionTime
                         /\ \A r \in ready :
                               r.LastTransitionTime >= c.LastTransitionTime
                   /\ inv[w].pc = "done" => inv[w].calls.upd = 1
                   /\ (inv[w].pc = "done" /\ inv[w].err = "")
                         => Stored(w).Status.NetworkFSConds = conds
              ELSE /\ new = old
                   /\ \A i \in 1..Len(inv[w].networkFS.Status.NetworkFSConds) :
                         conds[i].Type =
                            inv[w].networkFS.Status.NetworkFSConds[i].Type

\* an event with the address already served came at a later time: the Ready
\* record was restamped and written, the EndpointChanged record kept its time
C16_Witness ==
    \E w \in Workers :
       /\ Finished(w)
       /\ inv[w].err = ""
       /\ inv[w].calls.upd = 1
       /\ FirstSubsetLive(inv[w].endpoint)
       /\ inv[w].networkFS.Status.Endpoint =
             inv[w].endpoint.Subsets[1].Addresses[1].IP
       /\ \E c \in RecordsOf(Stored(w).Status.NetworkFSConds,
                             ConditionTypeEndpointChanged) :
          \E r \in RecordsOf(Stored(w).Status.NetworkFSConds,
                             ConditionTypeReady) :
             c.LastTransitionTime < r.LastTransitionTime

----------------------------------------------------------------------------
(* C17: the canonical address *)

\* C17: the prospective Status.Status and Status.Endpoint are decided by the
\* first address of the first subset alone: an endpoint with no subset, or
\* whose first subset lists no address, gives NotReady and an empty Endpoint
\* whatever its later subsets list; any other gives Ready and the first
\* address of the first subset, whatever follows it.
C17_CanonicalAddress ==
    \A w \in Workers :
       Decided(w)
       => LET subsets == inv[w].endpoint.Subsets
              st == inv[w].networkFSCpy.Status
          IN  IF Len(subsets) = 0
              THEN st.Status = EndpointStatusNotReady /\ st.Endpoint = ""
              ELSE IF Len(subsets[1].Addresses) = 0
              THEN st.Status = EndpointStatusNotReady /\ st.Endpoint = ""
              ELSE /\ st.Status = EndpointStatusReady
                   /\ st.Endpoint = subsets[1].Addresses[1].IP

\* the first subset lists no address and the second one does: a Ready status
\* was taken to NotReady and the write applied
C17_Witness ==
    \E w \in Workers :
       /\ Finished(w)
       /\ inv[w].err = ""
       /\ Len(inv[w].endpoint.Subsets) = 2
       /\ Len(inv[w].endpoint.Subsets[1].Addresses) = 0
       /\ Len(inv[w].endpoint.Subsets[2].Addresses) = 2
       /\ inv[w].networkFS.Status.Status = EndpointStatusReady
       /\ Stored(w).Status.Status = EndpointStatusNotReady
       /\ Stored(w).Status.Endpoint = ""

----------------------------------------------------------------------------
(* C18: Type and State of every write *)

\* C18: every prospective status, in either branch, has Type NFS and State
\* Enabling, and every stored status is either the one the object was
\* created with or has Type NFS and State Enabling: no State Enabled or
\* Disabled is ever written, also when Status is Ready.
C18_TypeAndState ==
    /\ \A w \in Workers :
          Decided(w)
          => /\ inv[w].networkFSCpy.Status.Type = "NFS"
             /\ inv[w].networkFSCpy.Status.State = "Enabling"
    /\ \A n \in Names :
          fsStore[n] /= NilObj
          => \/ fsStore[n].Status = ZeroStatus
             \/ /\ fsStore[n].Status.Type = "NFS"
                /\ fsStore[n].Status.State = "Enabling"
                /\ fsStore[n].Status.Status \in {"Ready", "NotReady"}

\* a write of a Ready status was applied: the stored State is Enabling
C18_Witness ==
    \E w \in Workers :
       /\ Finished(w)
       /\ inv[w].err = ""
       /\ inv[w].calls.upd = 1
       /\ Stored(w).Status.Status = EndpointStatusReady
       /\ Stored(w).Status.State = NetworkFSStateEnabling
       /\ inv[w].networkFS.Status.Status = EndpointStatusNotReady

----------------------------------------------------------------------------
(* C19: the condition history only grows *)

\* the condition types of a history, in order
TypesOf(conds) == [i \in 1..Len(conds) |-> conds[i].Type]

\* every condition record, stored or prospective, has status true
AllConditionsTrue ==
    /\ \A n \in Names :
          fsStore[n] /= NilObj
          => \A i \in 1..Len(fsStore[n].Status.NetworkFSConds) :
                fsStore[n].Status.NetworkFSConds[i].Status = "True"
    /\ \A w \in Workers :
          PassedGuards(w)
          => \A i \in 1..Len(inv[w].networkFSCpy.Status.NetworkFSConds) :
                inv[w].networkFSCpy.Status.NetworkFSConds[i].Status = "True"

\* a prospective status that leaves Ready for NotReady, or NotReady for
\* Ready, still holds the record of the status it leaves
StaleRecordKept ==
    \A w \in Workers :
       (/\ Decided(w)
        /\ inv[w].networkFS.Status.Status \in {"Ready", "NotReady"}
        /\ inv[w].networkFSCpy.Status.Status /= inv[w].networkFS.Status.Status)
       => /\ CountType(inv[w].networkFSCpy.Status.NetworkFSConds,
                       inv[w].networkFS.Status.Status) = 1
          /\ CountType(inv[w].networkFSCpy.Status.NetworkFSConds,
                       inv[w].networkFSCpy.Status.Status) = 1

\* no step removes or reorders the records of a stored history: the types
\* it held are the first types of the history after the step
HistoryKept ==
    \A n \in Names :
       fsStore[n] /= NilObj
       => LET old == TypesOf(fsStore[n].Status.NetworkFSConds)
              new == TypesOf(fsStore'[n].Status.NetworkFSConds)
          IN  Len(new) >= Len(old) /\ SubSeq(new, 1, Len(old)) = old

\* C19: no write removes a condition record and every record has status
\* true, so the condition types of a stored history never shrink; a status
\* that went from Ready to NotReady keeps a "Ready" record with status true
\* beside the "NotReady" one, and the other way round after recovery.
C19_HistoryMonotone ==
    /\ [](AllConditionsTrue /\ StaleRecordKept)
    /\ [][HistoryKept]_vars

\* a Ready status was taken to NotReady and written: the stored history
\* still holds the Ready record, with status true
C19_Witness ==
    \E w \in Workers :
       /\ Finished(w)
       /\ inv[w].err = ""
       /\ inv[w].calls.upd = 1
       /\ inv[w].networkFS.Status.Status = EndpointStatusReady
       /\ Stored(w).Status.Status = EndpointStatusNotReady
       /\ \E c \in RecordsOf(Stored(w).Status.NetworkFSConds,
                             ConditionTypeReady) : c.Status = ConditionTrue
       /\ CountType(Stored(w).Status.NetworkFSConds,
                    ConditionTypeNotReady) = 1

----------------------------------------------------------------------------
(* C20: convergence *)

\* the stored status of pvc-a agrees with the endpoint being redelivered
Converged ==
    /\ inv[1].endpoint /= NilObj
    /\ LET subsets == inv[1].endpoint.Subsets
           st == fsStore[NamePvcA].Status
       IN  IF Len(subsets) >= 1 /\ Len(subsets[1].Addresses) >= 1
           THEN /\ st.Status = EndpointStatusReady
                /\ st.Endpoint = subsets[1].Addresses[1].IP
           ELSE /\ st.Status = EndpointStatusNotReady
                /\ st.Endpoint = ""

\* C20: when the endpoint no longer changes, its NetworkFilesystem stays
\* Enabled and its Service headless, the event is redelivered after every
\* return and the store calls eventually succeed, then from some time on the
\* stored Status.Status and Status.Endpoint are those the endpoint's first
\* address dictates, for ever.
C20_Converges == <>[]Converged

\* after a redelivery that followed a completed invocation, the stored
\* status agrees with an endpoint whose address differs from the one the
\* object was Ready with at the start
C20_Witness ==
    /\ Converged
    /\ inv[1].pc = "done"
    /\ inv[1].applied /= NilObj
    /\ inv[1].applied.Status = fsStore[NamePvcA].Status
    /\ fsStore[NamePvcA].Status.Endpoint = "10.0.0.9"
    /\ clock = MaxTime

====
